---- MODULE Spec2Model ----
(***************************************************************************)
(* Model of the pmd-next-gen daemon: the networkd configure handler and    *)
(* its section/key configuration store, the removal rule for list keys,    *)
(* the HTTP transport with its authentication middlewares, and the systemd *)
(* route handlers.                                                         *)
(*                                                                         *)
(* A Go string is a finite sequence of atoms; the atom " " is one space    *)
(* and every other atom is a run of non-space characters.  "" is << >>.    *)
(***************************************************************************)
EXTENDS Integers, Sequences, FiniteSets, TLC

VARIABLES
    files,      \* configure: path -> file content (sequence of lines) or Absent
    linkState,  \* configure: what /run/systemd/netif/links/<ifindex> holds
    pc,         \* configure: position of each request inside ConfigureNetwork
    req,        \* configure: the decoded Network request of each request
    network,    \* configure: the local `network` (resolved path) of each request
    m,          \* configure: the local `m` (loaded *configfile.Meta document)
    resp,       \* configure: the response envelope written for each request
    log,        \* configure: per request, the calls made so far with outcome
    found,      \* configure: per request of a client that sends one request
                \* at a time, the files as they were when the request arrived
    pin,        \* rules: the input under evaluation
    pout,       \* rules: the result of the evaluated rule
    conf,       \* server: the configuration Run is started with
    phase,      \* server: how far Run has come
    middlewares,\* server: the middlewares registered on the router (r.Use)
    httpSrv,    \* server: the package variable httpSrv
    conn,       \* server: per connection, its request and what was written
    sig,        \* server: how far the signal goroutine of Run has come
    exit,       \* server: the exit code of the process and the call that set it
    sock,       \* server: the file at the unix socket path and its permissions
    bus,        \* describe: the properties hostnamed answers
    hung,       \* describe: the properties whose fetch never returns
    wg,         \* describe: the counter of the sync.WaitGroup
    tasks,      \* describe: the goroutines launched and not finished
    h,          \* describe: the Describe value the goroutines fill
    dpc,        \* describe: position of DBusDescribeFallback
    ret         \* describe: the description as it was when the call returned

vars ==
    <<files, linkState, pc, req, network, m, resp, log, found, pin, pout,
      conf, phase, middlewares, httpSrv, conn, sig, exit, sock,
      bus, hung, wg, tasks, h, dpc, ret>>

configureVars == <<files, linkState, pc, req, network, m, resp, log, found>>

pureVars == <<pin, pout>>

serverVars == <<conf, phase, middlewares, httpSrv, conn, sig, exit, sock>>

describeVars == <<bus, hung, wg, tasks, h, dpc, ret>>

-----------------------------------------------------------------------------
(* Bounds *)

\* number of configure requests in flight at once
NumReqs == 2

\* number of connections the server accepts
NumConns == 2

\* longest request list (Domains, DNS, NTP) and longest stored list
MaxList == 2

-----------------------------------------------------------------------------
(* Strings *)

SP == " "

None == "none"

\* no path
NoPath == << >>

\* the content of a path that holds no file
Absent == << [t |-> "absent", k |-> "", v |-> << >>] >>

RECURSIVE JoinFrom(_, _, _)
JoinFrom(list, sep, i) ==
    IF i > Len(list) THEN << >>
    ELSE IF i = Len(list) THEN list[i]
    ELSE list[i] \o sep \o JoinFrom(list, sep, i + 1)

\* strings.Join(list, sep)
Join(list, sep) == JoinFrom(list, sep, 1)

RECURSIVE SplitFrom(_, _, _)
SplitFrom(s, i, cur) ==
    IF i > Len(s) THEN << cur >>
    ELSE IF s[i] = SP THEN << cur >> \o SplitFrom(s, i + 1, << >>)
    ELSE SplitFrom(s, i + 1, Append(cur, s[i]))

\* strings.Split(s, " "): the pieces between single spaces (empty pieces kept)
Split(s) == SplitFrom(s, 1, << >>)

HasSpace(s) == \E i \in 1..Len(s) : s[i] = SP

Range(f) == { f[i] : i \in DOMAIN f }

-----------------------------------------------------------------------------
(* Config store: documents, lines, Load and Save *)

\* A document is a sequence of sections [name, keys], keys a sequence of
\* [k, v] in file order.  A file is a sequence of lines.
SecLine(name) == [t |-> "sec", k |-> name, v |-> << >>]

KvLine(key, value) == [t |-> "kv", k |-> key, v |-> value]

SectionIndex(doc, sname) ==
    IF \E i \in 1..Len(doc) : doc[i].name = sname
    THEN CHOOSE i \in 1..Len(doc) :
            /\ doc[i].name = sname
            /\ \A j \in 1..(i - 1) : doc[j].name # sname
    ELSE 0

KeyIndex(keys, key) ==
    IF \E i \in 1..Len(keys) : keys[i].k = key
    THEN CHOOSE i \in 1..Len(keys) :
            /\ keys[i].k = key
            /\ \A j \in 1..(i - 1) : keys[j].k # key
    ELSE 0

HasKey(doc, sname, key) ==
    /\ SectionIndex(doc, sname) # 0
    /\ KeyIndex(doc[SectionIndex(doc, sname)].keys, key) # 0

\* Meta.GetKeySectionString: the value, "" when the section or key is absent
GetKeySectionString(doc, sname, key) ==
    IF HasKey(doc, sname, key)
    THEN LET ks == doc[SectionIndex(doc, sname)].keys
         IN  ks[KeyIndex(ks, key)].v
    ELSE << >>

SetKey(keys, key, value) ==
    IF KeyIndex(keys, key) # 0
    THEN [keys EXCEPT ![KeyIndex(keys, key)].v = value]
    ELSE Append(keys, [k |-> key, v |-> value])

\* Meta.SetKeySectionString: replace the value; a new section goes to the end
\* of the sections and a new key to the end of its section
SetKeySectionString(doc, sname, key, value) ==
    IF SectionIndex(doc, sname) # 0
    THEN [doc EXCEPT ![SectionIndex(doc, sname)].keys = SetKey(@, key, value)]
    ELSE Append(doc, [name |-> sname, keys |-> << [k |-> key, v |-> value] >>])

RECURSIVE KeyLines(_, _)
KeyLines(keys, i) ==
    IF i > Len(keys) THEN << >>
    ELSE << KvLine(keys[i].k, keys[i].v) >> \o KeyLines(keys, i + 1)

RECURSIVE Serialize(_, _)
\* the text Meta.Save writes: sections in order, each key in order
Serialize(doc, i) ==
    IF i > Len(doc) THEN << >>
    ELSE << SecLine(doc[i].name) >> \o KeyLines(doc[i].keys, 1) \o Serialize(doc, i + 1)

RECURSIVE ParseFrom(_, _, _)
ParseFrom(lines, i, doc) ==
    IF i > Len(lines) THEN doc
    ELSE IF lines[i].t = "sec"
    THEN ParseFrom(lines, i + 1,
            IF SectionIndex(doc, lines[i].k) # 0 THEN doc
            ELSE Append(doc, [name |-> lines[i].k, keys |-> << >>]))
    ELSE ParseFrom(lines, i + 1,
            IF Len(doc) = 0
            THEN << [name |-> "", keys |-> << [k |-> lines[i].k, v |-> lines[i].v] >>] >>
            ELSE [doc EXCEPT ![Len(doc)].keys = SetKey(@, lines[i].k, lines[i].v)])

\* configfile.Load on the content of a file: an absent file loads as the
\* empty document
Load(content) == IF content = Absent THEN << >> ELSE ParseFrom(content, 1, << >>)

\* Meta.Save: the whole document replaces the file content in one operation
Save(doc) == Serialize(doc, 1)

-----------------------------------------------------------------------------
(* networkd: requests *)

Reqs == 1..NumReqs

LinkName == "eth0"

NoLink == "nolink"

EmptySection ==
    [DHCP |-> << >>, DNS |-> << >>, Domains |-> << >>, NTP |-> << >>,
     IPv6AcceptRA |-> << >>, LinkLocalAddressing |-> << >>, MulticastDNS |-> << >>]

NoReq == [Link |-> None, NetworkSection |-> EmptySection]

ScalarFields == {"DHCP", "IPv6AcceptRA", "LinkLocalAddressing", "MulticastDNS"}

ListFields == {"Domains", "DNS", "NTP"}

NetworkFields == ScalarFields \cup ListFields

\* the value ConfigureNetworkSection stores for a field of the request
FieldValue(ns, f) == IF f \in ListFields THEN Join(ns[f], << SP >>) ELSE ns[f]

\* ConfigureNetworkSection with the DHCP test copied from the next field and
\* the DNS value stored under the key of the field above it
ConfigureNetworkSectionCopyPaste(ns, doc) ==
    LET d1 == IF ns.IPv6AcceptRA # << >>
              THEN SetKeySectionString(doc, "Network", "DHCP", ns.DHCP) ELSE doc
        d2 == IF ns.IPv6AcceptRA # << >>
              THEN SetKeySectionString(d1, "Network", "IPv6AcceptRA", ns.IPv6AcceptRA) ELSE d1
        d3 == IF ns.LinkLocalAddressing # << >>
              THEN SetKeySectionString(d2, "Network", "LinkLocalAddressing", ns.LinkLocalAddressing)
              ELSE d2
        d4 == IF ns.MulticastDNS # << >>
              THEN SetKeySectionString(d3, "Network", "MulticastDNS", ns.MulticastDNS) ELSE d3
        d5 == IF Len(ns.Domains) > 0
              THEN SetKeySectionString(d4, "Network", "Domains", Join(ns.Domains, << SP >>)) ELSE d4
        d6 == IF Len(ns.DNS) > 0
              THEN SetKeySectionString(d5, "Network", "Domains", Join(ns.DNS, << SP >>)) ELSE d5
        d7 == IF Len(ns.NTP) > 0
              THEN SetKeySectionString(d6, "Network", "NTP", Join(ns.NTP, << SP >>)) ELSE d6
    IN  d7

\* ConfigureNetworkSection without the tests for empty fields
ConfigureNetworkSectionUnguarded(ns, doc) ==
    LET d1 == SetKeySectionString(doc, "Network", "DHCP", ns.DHCP)
        d2 == SetKeySectionString(d1, "Network", "IPv6AcceptRA", ns.IPv6AcceptRA)
        d3 == SetKeySectionString(d2, "Network", "LinkLocalAddressing", ns.LinkLocalAddressing)
        d4 == SetKeySectionString(d3, "Network", "MulticastDNS", ns.MulticastDNS)
        d5 == SetKeySectionString(d4, "Network", "Domains", Join(ns.Domains, << SP >>))
        d6 == SetKeySectionString(d5, "Network", "DNS", Join(ns.DNS, << SP >>))
        d7 == SetKeySectionString(d6, "Network", "NTP", Join(ns.NTP, << SP >>))
    IN  d7

\* Network.ConfigureNetworkSection
ConfigureNetworkSection(ns, doc) ==
    LET d1 == IF ns.DHCP # << >>
              THEN SetKeySectionString(doc, "Network", "DHCP", ns.DHCP) ELSE doc
        d2 == IF ns.IPv6AcceptRA # << >>
              THEN SetKeySectionString(d1, "Network", "IPv6AcceptRA", ns.IPv6AcceptRA) ELSE d1
        d3 == IF ns.LinkLocalAddressing # << >>
              THEN SetKeySectionString(d2, "Network", "LinkLocalAddressing", ns.LinkLocalAddressing)
              ELSE d2
        d4 == IF ns.MulticastDNS # << >>
              THEN SetKeySectionString(d3, "Network", "MulticastDNS", ns.MulticastDNS) ELSE d3
        d5 == IF Len(ns.Domains) > 0
              THEN SetKeySectionString(d4, "Network", "Domains", Join(ns.Domains, << SP >>)) ELSE d4
        d6 == IF Len(ns.DNS) > 0
              THEN SetKeySectionString(d5, "Network", "DNS", Join(ns.DNS, << SP >>)) ELSE d5
        d7 == IF Len(ns.NTP) > 0
              THEN SetKeySectionString(d6, "Network", "NTP", Join(ns.NTP, << SP >>)) ELSE d6
    IN  d7

-----------------------------------------------------------------------------
(* networkd: link state and network files *)

NetworkDir == "/etc/systemd/network"

\* path.Join(dir, file)
PathJoin(dir, file) == << dir, file >>

\* the file name CreateNetworkFile builds: "10-" + link + ".network"
NetworkFileName(link) == << "10-", link, ".network" >>

DefaultPath(link) == PathJoin(NetworkDir, NetworkFileName(link))

\* a .network file written by the operator that networkd matched to the link
OperatorPath == PathJoin(NetworkDir, << "50-static.network" >>)

Paths == { DefaultPath(LinkName), OperatorPath }

\* the [Match] section written without the link's name
MatchLinesNameless(link) == << SecLine("Match") >>

\* strings.Fields("[Match]\nName=" + link + "\n"): the two lines written
MatchLines(link) == << SecLine("Match"), KvLine("Name", << link >>) >>

\* /run/systemd/netif/links/<ifindex>: ADMIN_STATE readable or not, and the
\* NETWORK_FILE entry (NoPath when the key is missing)
LinkStates ==
    { [setup |-> FALSE, networkFile |-> NoPath],
      [setup |-> TRUE, networkFile |-> NoPath] }
    \cup { [setup |-> TRUE, networkFile |-> p] : p \in Paths }

\* CreateOrParseNetworkFile calling CreateNetworkFile whatever the state says
NeedsCreateAlways(ls) == TRUE

\* CreateOrParseNetworkFile: TRUE when it calls CreateNetworkFile
NeedsCreate(ls) == IF ~ls.setup THEN TRUE ELSE ls.networkFile = NoPath

\* CreateOrParseNetworkFile: the path it returns on success
ResolvedPath(ls, link) == IF NeedsCreate(ls) THEN DefaultPath(link) ELSE ls.networkFile

-----------------------------------------------------------------------------
(* networkd: ConfigureNetwork *)

NoResp == [success |-> FALSE, message |-> None, errors |-> None]

\* web.JSONResponse(msg, w)
SuccessEnvelope(msg) == [success |-> TRUE, message |-> msg, errors |-> ""]

\* the route handler's answer to an error returned by ConfigureNetwork
ErrorEnvelope(err) == [success |-> FALSE, message |-> "", errors |-> err]

\* the error each callee of ConfigureNetwork returns when it fails
CalleeError(call) ==
    CASE call = "LinkByName" -> "Link not found"
      [] call = "CreateOrParseNetworkFile" -> "write network file failed"
      [] call = "Load" -> "load failed"
      [] call = "Save" -> "save failed"
      [] call = "DBusNetworkReload" -> "reload failed"

\* ConfigureNetwork returning one error of its own for every failure
ReturnedErrorGeneric(call) == "configure failed"

\* ConfigureNetwork: `return err` hands the callee's error on unchanged
ReturnedError(call) == CalleeError(call)

\* ConfigureNetwork going on to the reload without testing the error of Save
NextCallSaveUnchecked(call, ok) ==
    IF call = "Save" THEN "DBusNetworkReload"
    ELSE IF ~ok THEN "return"
    ELSE CASE call = "LinkByName" -> "CreateOrParseNetworkFile"
           [] call = "CreateOrParseNetworkFile" -> "Load"
           [] call = "Load" -> "Save"
           [] call = "DBusNetworkReload" -> "return"

\* ConfigureNetwork: the statement that follows each call, by its outcome
NextCall(call, ok) ==
    IF ~ok THEN "return"
    ELSE CASE call = "LinkByName" -> "CreateOrParseNetworkFile"
           [] call = "CreateOrParseNetworkFile" -> "Load"
           [] call = "Load" -> "Save"
           [] call = "Save" -> "DBusNetworkReload"
           [] call = "DBusNetworkReload" -> "return"

\* one call made by a request: its outcome and the path it wrote (or NoPath)
Event(call, ok, wrote) == [call |-> call, ok |-> ok, wrote |-> wrote]

\* the state of request r after `call` ended with outcome `ok`
Step(r, call, ok, wrote) ==
    /\ pc' = [pc EXCEPT ![r] = NextCall(call, ok)]
    /\ log' = [log EXCEPT ![r] = Append(@, Event(call, ok, wrote))]
    /\ resp' = [resp EXCEPT ![r] =
                  IF NextCall(call, ok) # "return" THEN @
                  ELSE IF ok THEN SuccessEnvelope("configured")
                  ELSE ErrorEnvelope(ReturnedError(call))]

Payload(ns) == [Link |-> LinkName, NetworkSection |-> ns]

With(f, v) == [EmptySection EXCEPT ![f] = v]

\* the requests the clients send
ConfigureRequests ==
    { Payload(With("DHCP", << "ipv4" >>)),
      Payload(With("DHCP", << "yes" >>)),
      Payload([EmptySection EXCEPT !.DNS = << << "8.8.8.8" >>, << "8.8.4.4" >> >>,
                                   !.MulticastDNS = << "resolve" >>]),
      Payload(EmptySection),
      [Link |-> NoLink, NetworkSection |-> With("DHCP", << "ipv4" >>)] }

\* documents on disk before the first request
OperatorDoc ==
    << [name |-> "Match", keys |-> << [k |-> "Name", v |-> << LinkName >>] >>],
       [name |-> "Network", keys |-> << [k |-> "LLDP", v |-> << "yes" >>],
                                        [k |-> "DHCP", v |-> << "no" >>] >>] >>

\* the request arrives and netlink.LinkByName looks the link up; requests are
\* numbered in the order of their arrival
Receive(r) ==
    /\ pc[r] = "idle"
    /\ \A q \in Reqs : q < r => pc[q] # "idle"
    /\ \E n \in ConfigureRequests :
         /\ req' = [req EXCEPT ![r] = n]
         /\ Step(r, "LinkByName", n.Link = LinkName, NoPath)
    /\ UNCHANGED <<files, linkState, network, m>>

\* CreateNetworkFile through system.WriteFullFile
CreateNetworkFile(r, ok) ==
    /\ files' = IF ok THEN [files EXCEPT ![DefaultPath(req[r].Link)] = MatchLines(req[r].Link)]
                ELSE files
    /\ network' = IF ok THEN [network EXCEPT ![r] = DefaultPath(req[r].Link)] ELSE network
    /\ Step(r, "CreateOrParseNetworkFile", ok,
            IF ok THEN DefaultPath(req[r].Link) ELSE NoPath)

\* CreateOrParseNetworkFile(link)
CreateOrParseNetworkFile(r) ==
    /\ pc[r] = "CreateOrParseNetworkFile"
    /\ IF NeedsCreate(linkState)
       THEN \E ok \in BOOLEAN : CreateNetworkFile(r, ok)
       ELSE /\ network' = [network EXCEPT ![r] = ResolvedPath(linkState, req[r].Link)]
            /\ Step(r, "CreateOrParseNetworkFile", TRUE, NoPath)
            /\ UNCHANGED files
    /\ UNCHANGED <<linkState, req, m>>

\* configfile.Load(network)
LoadFile(r) ==
    /\ pc[r] = "Load"
    /\ \E ok \in BOOLEAN :
         /\ m' = [m EXCEPT ![r] = IF ok THEN Load(files[network[r]]) ELSE << >>]
         /\ Step(r, "Load", ok, NoPath)
    /\ UNCHANGED <<files, linkState, req, network>>

\* n.ConfigureNetworkSection(m) and m.Save()
SaveFile(r) ==
    /\ pc[r] = "Save"
    /\ LET doc == ConfigureNetworkSection(req[r].NetworkSection, m[r])
       IN  \E ok \in BOOLEAN :
             /\ files' = IF ok THEN [files EXCEPT ![network[r]] = Save(doc)] ELSE files
             /\ m' = [m EXCEPT ![r] = IF ok THEN doc ELSE << >>]
             /\ Step(r, "Save", ok, IF ok THEN network[r] ELSE NoPath)
    /\ UNCHANGED <<linkState, req, network>>

\* the link states systemd-networkd may write while the files are as given
ConsistentLinkStates(fs) ==
    { ls \in LinkStates : ls.networkFile # NoPath => fs[ls.networkFile] # Absent }

\* DBusNetworkReload(ctx) and, when it succeeds, web.JSONResponse; a reload
\* makes systemd-networkd rewrite the link's runtime state
Reload(r) ==
    /\ pc[r] = "DBusNetworkReload"
    /\ \E ok \in BOOLEAN :
         /\ Step(r, "DBusNetworkReload", ok, NoPath)
         /\ IF ok THEN linkState' \in ConsistentLinkStates(files)
            ELSE linkState' = linkState
    /\ m' = [m EXCEPT ![r] = << >>]
    /\ UNCHANGED <<files, req, network>>

\* a request that has not arrived has found nothing
NoneFound == [p \in Paths |-> Absent]

ConfigureInit ==
    /\ files \in { f \in [Paths -> { Absent, Save(OperatorDoc), MatchLines(LinkName) }] :
                     /\ f[OperatorPath] = Save(OperatorDoc)
                     /\ f[DefaultPath(LinkName)] # Save(OperatorDoc) }
    /\ linkState \in ConsistentLinkStates(files)
    /\ pc = [r \in Reqs |-> "idle"]
    /\ req = [r \in Reqs |-> NoReq]
    /\ network = [r \in Reqs |-> NoPath]
    /\ m = [r \in Reqs |-> << >>]
    /\ resp = [r \in Reqs |-> NoResp]
    /\ log = [r \in Reqs |-> << >>]
    /\ found = [r \in Reqs |-> NoneFound]

\* no function under evaluation
NoInput ==
    [op |-> None, ns |-> EmptySection, doc |-> << >>,
     sname |-> "", key |-> "", values |-> << >>]

NoOutput == [done |-> FALSE, doc |-> << >>]

PureIdle ==
    /\ pin = NoInput
    /\ pout = NoOutput

Conns == 1..NumConns

\* a connection not yet accepted
NoConn ==
    [state |-> "none", peer |-> None, token |-> None, route |-> None,
     method |-> None, checked |-> FALSE, acted |-> FALSE, writes |-> << >>]

\* the process is running
NoExit == [code |-> -1, by |-> None]

\* the process has exited with `code` through the call `by`
Exit(code, by) == [code |-> code, by |-> by]

\* the server as the handler sees it: serving on the unix socket
ServerIdle ==
    /\ conf = [unixSocket |-> TRUE, useAuth |-> FALSE, tls |-> FALSE]
    /\ phase = "serving"
    /\ middlewares = << >>
    /\ httpSrv = "unix"
    /\ conn = [c \in Conns |-> NoConn]
    /\ sig = "waiting"
    /\ exit = NoExit
    /\ sock = "restricted"

\* the goroutines of DBusDescribeFallback in the order of their go
\* statements: the property (or method) each reads and the field it fills
Fetches ==
    << [prop |-> "StaticHostname", field |-> "StaticHostname"],
       [prop |-> "Hostname", field |-> "Hostname"],
       [prop |-> "PrettyHostname", field |-> "PrettyHostname"],
       [prop |-> "IconName", field |-> "IconName"],
       [prop |-> "Chassis", field |-> "Chassis"],
       [prop |-> "Deployment", field |-> "Deployment"],
       [prop |-> "Location", field |-> "Location"],
       [prop |-> "KernelName", field |-> "KernelName"],
       [prop |-> "KernelRelease", field |-> "KernelRelease"],
       [prop |-> "KernelVersion", field |-> "KernelVersion"],
       [prop |-> "OperatingSystemPrettyName", field |-> "OperatingSystemPrettyName"],
       [prop |-> "OperatingSystemCPEName", field |-> "OperatingSystemCPEName"],
       [prop |-> "HomeURL", field |-> "OperatingSystemHomeURL"],
       [prop |-> "HardwareVendor", field |-> "HardwareVendor"],
       [prop |-> "HardwareModel", field |-> "HardwareModel"],
       [prop |-> "GetProductUUID", field |-> "ProductUUID"],
       [prop |-> "HostnameSource", field |-> "HostnameSource"] >>

Tasks == 1..Len(Fetches)

\* wg.Add(17)
WaitGroupCount == 17

Properties == { Fetches[t].prop : t \in Tasks }

DescribeFields == { Fetches[t].field : t \in Tasks }

\* h := Describe{}
EmptyDescribe == [f \in DescribeFields |-> << >>]

\* the value hostnamed answers for a property
BusValue(prop) == << "value of", prop >>

\* DBusDescribeFallback is not running
DescribeIdle ==
    /\ bus = Properties
    /\ hung = {}
    /\ wg = 0
    /\ tasks = {}
    /\ h = EmptyDescribe
    /\ dpc = "idle"
    /\ ret = EmptyDescribe

Init ==
    /\ ConfigureInit
    /\ PureIdle
    /\ ServerIdle
    /\ DescribeIdle

Next ==
    \/ \E r \in Reqs : Receive(r) /\ UNCHANGED <<found, pureVars, serverVars, describeVars>>
    \/ \E r \in Reqs : CreateOrParseNetworkFile(r) /\ UNCHANGED <<found, pureVars, serverVars, describeVars>>
    \/ \E r \in Reqs : LoadFile(r) /\ UNCHANGED <<found, pureVars, serverVars, describeVars>>
    \/ \E r \in Reqs : SaveFile(r) /\ UNCHANGED <<found, pureVars, serverVars, describeVars>>
    \/ \E r \in Reqs : Reload(r) /\ UNCHANGED <<found, pureVars, serverVars, describeVars>>

Spec == Init /\ [][Next]_vars

\* a client that sends its requests one at a time, each after the response
\* to the one before (configureNetwork of the pmctl tests)
ReceiveInTurn(r) ==
    /\ \A q \in Reqs : q # r => pc[q] \in {"idle", "return"}
    /\ Receive(r)
    /\ found' = [found EXCEPT ![r] = files]

NextInTurn ==
    \/ \E r \in Reqs : ReceiveInTurn(r) /\ UNCHANGED <<pureVars, serverVars, describeVars>>
    \/ \E r \in Reqs : CreateOrParseNetworkFile(r) /\ UNCHANGED <<found, pureVars, serverVars, describeVars>>
    \/ \E r \in Reqs : LoadFile(r) /\ UNCHANGED <<found, pureVars, serverVars, describeVars>>
    \/ \E r \in Reqs : SaveFile(r) /\ UNCHANGED <<found, pureVars, serverVars, describeVars>>
    \/ \E r \in Reqs : Reload(r) /\ UNCHANGED <<found, pureVars, serverVars, describeVars>>

SpecInTurn == Init /\ [][NextInTurn]_vars

-----------------------------------------------------------------------------
(* Properties of ConfigureNetwork under concurrent requests *)

Called(r, call) == \E i \in 1..Len(log[r]) : log[r][i].call = call

Succeeded(r, call) == \E i \in 1..Len(log[r]) : log[r][i].call = call /\ log[r][i].ok

Failed(r, call) == \E i \in 1..Len(log[r]) : log[r][i].call = call /\ ~log[r][i].ok

Wrote(r, p) == \E i \in 1..Len(log[r]) : log[r][i].wrote = p

\* request q wrote the [Match] file at p through CreateNetworkFile
Created(q, p) ==
    \E i \in 1..Len(log[q]) :
        log[q][i].call = "CreateOrParseNetworkFile" /\ log[q][i].wrote = p

Returned(r) == pc[r] = "return"

ReportedSuccess(r) == Returned(r) /\ resp[r].success

\* the fields a request carries
CarriedFields(ns) == { f \in NetworkFields : ns[f] # << >> }

FieldsOf(r) == CarriedFields(req[r].NetworkSection)

\* the value of a [Network] key in the file at path p
Persisted(p, key) == GetKeySectionString(Load(files[p]), "Network", key)

\* request r is between its Load and its Save
InCycle(r) == pc[r] = "Save"

\* a file that parses as sections of key lines and is written back unchanged
WellFormed(content) ==
    /\ content # Absent
    /\ \A i \in 1..Len(content) : content[i].t \in {"sec", "kv"} /\ content[i].k # ""
    /\ Len(content) > 0 => content[1].t = "sec"
    /\ Save(Load(content)) = content

C1_NoInterleaving ==
    \A r1, r2 \in Reqs :
        (r1 # r2 /\ InCycle(r1) /\ InCycle(r2)) => network[r1] # network[r2]

C1_BothKept ==
    \A r1, r2 \in Reqs :
        ( /\ r1 # r2
          /\ ReportedSuccess(r1) /\ ReportedSuccess(r2)
          /\ network[r1] = network[r2]
          /\ FieldsOf(r1) # {} /\ FieldsOf(r2) # {}
          /\ FieldsOf(r1) \cap FieldsOf(r2) = {}
          /\ \A q \in Reqs : Wrote(q, network[r1]) => q \in {r1, r2}
          /\ \A q \in Reqs : ~Created(q, network[r1]) )
        => \A f \in FieldsOf(r1) \cup FieldsOf(r2) :
              Persisted(network[r1], f) =
                 FieldValue((IF f \in FieldsOf(r1) THEN req[r1] ELSE req[r2]).NetworkSection, f)

\* C1: two concurrent configure requests on the same target never interleave
\* their Load..Save cycles, and when both succeed setting different keys, the
\* persisted document holds both new values.
C1_Serialized == C1_NoInterleaving /\ C1_BothKept

\* a state in which two successful requests on one path interleaved their cycles
C1_Interleaved ==
    \E r1, r2 \in Reqs :
        r1 # r2 /\ InCycle(r1) /\ InCycle(r2) /\ network[r1] = network[r2]

\* r1 and r2 are the only requests that wrote path p, and both reported success
OnlyWriters(r1, r2, p) ==
    /\ r1 # r2
    /\ ReportedSuccess(r1) /\ ReportedSuccess(r2)
    /\ network[r1] = p /\ network[r2] = p
    /\ \A q \in Reqs : Wrote(q, p) => q \in {r1, r2}

\* C2: when two concurrent requests on the same target set the same key to X
\* and to Y and both complete, the persisted key holds X or Y exactly and the
\* file is a well-formed section/key document.
C2_OneOfBoth ==
    \A r1, r2 \in Reqs : \A p \in Paths : \A f \in NetworkFields :
        (OnlyWriters(r1, r2, p) /\ f \in FieldsOf(r1) \cap FieldsOf(r2))
        => /\ Persisted(p, f) \in { FieldValue(req[r1].NetworkSection, f),
                                    FieldValue(req[r2].NetworkSection, f) }
           /\ HasKey(Load(files[p]), "Network", f)
           /\ WellFormed(files[p])

C2_Witness ==
    \E r1, r2 \in Reqs : \E p \in Paths :
        /\ OnlyWriters(r1, r2, p)
        /\ req[r1].NetworkSection.DHCP = << "ipv4" >>
        /\ req[r2].NetworkSection.DHCP = << "yes" >>
        /\ Persisted(p, "DHCP") = << "ipv4" >>

\* the elements of a request list, none empty and none holding a space
PlainList(list) == \A i \in 1..Len(list) : list[i] # << >> /\ ~HasSpace(list[i])

\* the document at request r's path holds every field the request carries
HoldsRequest(content, ns) ==
    LET doc == Load(content)
    IN  /\ \A f \in ScalarFields :
              ns[f] # << >> => GetKeySectionString(doc, "Network", f) = ns[f]
        /\ \A f \in ListFields :
              (ns[f] # << >> /\ PlainList(ns[f]))
              => Split(GetKeySectionString(doc, "Network", f)) = ns[f]

\* C4: once a configure request's Save has succeeded, a Load of the link's
\* document returns every non-empty scalar field of the request as requested and
\* every non-empty list field as its values, in request order, space-joined.
C4_LoadReturnsRequest ==
    [][\A r \in Reqs :
          (pc[r] = "Save" /\ pc'[r] = "DBusNetworkReload")
          => HoldsRequest(files'[network[r]], req[r].NetworkSection)]_vars

C4_Witness ==
    \E r \in Reqs :
        /\ ReportedSuccess(r)
        /\ Len(req[r].NetworkSection.DNS) = 2
        /\ req[r].NetworkSection.MulticastDNS = << "resolve" >>
        /\ Persisted(network[r], "DNS") = << "8.8.8.8", SP, "8.8.4.4" >>
        /\ Persisted(network[r], "MulticastDNS") = << "resolve" >>

\* the position of the first event of `call` in request r's log (0: none)
FirstCall(r, call) ==
    IF Called(r, call)
    THEN CHOOSE i \in 1..Len(log[r]) :
            /\ log[r][i].call = call
            /\ \A j \in 1..(i - 1) : log[r][j].call # call
    ELSE 0

\* C9: the reload of a request is invoked only after that request's Save
\* returned success; when the link lookup, the file resolution, Load or Save
\* fails there is no reload, and success is reported only after Save and
\* reload both succeeded.
C9_ReloadAfterSave ==
    \A r \in Reqs :
        /\ Called(r, "DBusNetworkReload")
           => /\ Succeeded(r, "Save")
              /\ FirstCall(r, "Save") < FirstCall(r, "DBusNetworkReload")
        /\ \A c \in {"LinkByName", "CreateOrParseNetworkFile", "Load", "Save"} :
              Failed(r, c) => ~Called(r, "DBusNetworkReload")
        /\ resp[r].success => Succeeded(r, "Save") /\ Succeeded(r, "DBusNetworkReload")

C9_Witness ==
    /\ \E r \in Reqs : ReportedSuccess(r) /\ Succeeded(r, "DBusNetworkReload")
    /\ \E r \in Reqs : Returned(r) /\ Failed(r, "Save")

-----------------------------------------------------------------------------
(* Meta.Save in its two halves, with requests that load the same file *)

\* a Save that truncates the file and writes the document into it: after the
\* first write the path holds the first line
DuringSaveInPlace(old, new) == SubSeq(new, 1, 1)

\* what the path of the file holds while Meta.Save has written the document
\* to the temporary path and has not renamed it yet
DuringSave(old, new) == old

\* n.ConfigureNetworkSection(m) and the first half of m.Save(): the document
\* goes to a temporary path next to the file
WriteTemp(r) ==
    /\ pc[r] = "Save"
    /\ LET doc == ConfigureNetworkSection(req[r].NetworkSection, m[r])
       IN  \E ok \in BOOLEAN :
             IF ok
             THEN /\ files' = [files EXCEPT ![network[r]] = DuringSave(@, Save(doc))]
                  /\ m' = [m EXCEPT ![r] = doc]
                  /\ pc' = [pc EXCEPT ![r] = "Save.rename"]
                  /\ UNCHANGED <<resp, log>>
             ELSE /\ m' = [m EXCEPT ![r] = << >>]
                  /\ Step(r, "Save", FALSE, NoPath)
                  /\ UNCHANGED files
    /\ UNCHANGED <<linkState, req, network>>

\* the second half of m.Save(): the temporary file is renamed onto the path
Rename(r) ==
    /\ pc[r] = "Save.rename"
    /\ \E ok \in BOOLEAN :
         /\ files' = IF ok THEN [files EXCEPT ![network[r]] = Save(m[r])] ELSE files
         /\ m' = [m EXCEPT ![r] = IF ok THEN @ ELSE << >>]
         /\ Step(r, "Save", ok, IF ok THEN network[r] ELSE NoPath)
    /\ UNCHANGED <<linkState, req, network>>

\* every request has resolved the file the link state names and is about to
\* load it
SaveInit ==
    /\ files \in { f \in [Paths -> { Absent, Save(OperatorDoc), MatchLines(LinkName) }] :
                     /\ f[OperatorPath] = Save(OperatorDoc)
                     /\ f[DefaultPath(LinkName)] # Save(OperatorDoc) }
    /\ linkState \in { ls \in ConsistentLinkStates(files) : ~NeedsCreate(ls) }
    /\ pc = [r \in Reqs |-> "Load"]
    /\ req \in [Reqs -> { n \in ConfigureRequests : n.Link = LinkName }]
    /\ network = [r \in Reqs |-> ResolvedPath(linkState, LinkName)]
    /\ m = [r \in Reqs |-> << >>]
    /\ resp = [r \in Reqs |-> NoResp]
    /\ log = [r \in Reqs |-> << Event("LinkByName", TRUE, NoPath),
                                 Event("CreateOrParseNetworkFile", TRUE, NoPath) >>]
    /\ found = [r \in Reqs |-> files]
    /\ PureIdle
    /\ ServerIdle
    /\ DescribeIdle

SaveNext ==
    \/ \E r \in Reqs : LoadFile(r) /\ UNCHANGED <<found, pureVars, serverVars, describeVars>>
    \/ \E r \in Reqs : WriteTemp(r) /\ UNCHANGED <<found, pureVars, serverVars, describeVars>>
    \/ \E r \in Reqs : Rename(r) /\ UNCHANGED <<found, pureVars, serverVars, describeVars>>

SpecSave == SaveInit /\ [][SaveNext]_vars

\* the complete contents the file of request r has had: the one on disk when
\* the requests began and the document of every Save that has returned success
CompleteContents(r) ==
    { found[r][network[r]] }
    \cup { Save(m[q]) : q \in { x \in Reqs : network[x] = network[r] /\ Succeeded(x, "Save") } }

\* C18: a request that loads the file while others save it gets the complete
\* content of before a Save or the complete content of a finished Save, never a
\* truncated or half-written file.
C18_NoHalfWritten ==
    [][\A r \in Reqs :
          (pc[r] = "Load" /\ pc'[r] = "Save")
          => \E c \in CompleteContents(r) : m'[r] = Load(c)]_vars

\* a request has loaded the old document while another was between the two
\* halves of its Save, and a third view: the new document once it was renamed
C18_Witness ==
    \E r, q \in Reqs :
        /\ r # q
        /\ pc[q] = "Save.rename" /\ FieldsOf(q) # {}
        /\ pc[r] = "Save" /\ m[r] = Load(found[r][network[r]])
        /\ m[q] # m[r]

-----------------------------------------------------------------------------
(* Properties of ConfigureNetwork for requests sent one at a time *)

\* no request has arrived after request r
Latest(r) == \A q \in Reqs : q > r => pc[q] = "idle"

\* C11: when Save fails during a configure request, the request is reported
\* failed, the mutated document is discarded and the file of the target is on
\* disk as it was before the request.
C11_SaveFailureLeavesDisk ==
    \A r \in Reqs :
        (Failed(r, "Save") /\ Latest(r))
        => /\ Returned(r) /\ ~resp[r].success
           /\ m[r] = << >>
           /\ files[network[r]] = found[r][network[r]]

\* the fields named by the requests that arrived after r1, up to r2
NamedAfter(r1, r2) == UNION { FieldsOf(q) : q \in { x \in Reqs : r1 < x /\ x <= r2 } }

\* C16: over successful configure requests on one link, sent one after the
\* other, a key set by an earlier request and named by no later one still holds
\* its value after the later request, whatever the link's runtime state was when
\* the later request resolved the file.
C16_KeepsUntouched ==
    \A r1, r2 \in Reqs :
        ( /\ r1 < r2 /\ Latest(r2)
          /\ ReportedSuccess(r1) /\ ReportedSuccess(r2)
          /\ network[r1] = network[r2] )
        => \A f \in FieldsOf(r1) \ NamedAfter(r1, r2) :
              Persisted(network[r2], f) = FieldValue(req[r1].NetworkSection, f)

\* the path and the content the store gives a link that has no file
FirstTimePath(link) == << "/etc/systemd/network", << "10-", link, ".network" >> >>

FirstTimeLines(link) ==
    << [t |-> "sec", k |-> "Match", v |-> << >>], [t |-> "kv", k |-> "Name", v |-> << link >>] >>

\* C17: configuring a link without a network file does not fail for want of
\* the file: the request gets /etc/systemd/network/10-L.network, the same for
\* every request on L, created with [Match] Name=L, loads it, and its mutation
\* is saved at that path.
C17_FirstTimeConfigure ==
    /\ [](\A r \in Reqs :
            /\ (\E p \in Paths : Created(r, p))
               => /\ network[r] = FirstTimePath(req[r].Link)
                  /\ Created(r, network[r])
            /\ pc[r] = "Load" => files[network[r]] # Absent
            /\ Failed(r, "CreateOrParseNetworkFile") => ~(\E p \in Paths : Wrote(r, p)))
    /\ [][\A r \in Reqs :
            /\ (pc[r] = "CreateOrParseNetworkFile" /\ NeedsCreate(linkState)
                   /\ pc'[r] = "Load")
               => files'[FirstTimePath(req[r].Link)] = FirstTimeLines(req[r].Link)
            /\ (pc[r] = "Save" /\ pc'[r] = "DBusNetworkReload"
                   /\ Created(r, FirstTimePath(req[r].Link)))
               => /\ HoldsRequest(files'[FirstTimePath(req[r].Link)], req[r].NetworkSection)
                  /\ GetKeySectionString(Load(files'[FirstTimePath(req[r].Link)]),
                                         "Match", "Name") = << req[r].Link >>]_vars

C17_Witness ==
    \E r \in Reqs :
        /\ found[r][FirstTimePath(LinkName)] = Absent
        /\ ReportedSuccess(r) /\ Created(r, FirstTimePath(LinkName))
        /\ req[r].NetworkSection.DHCP = << "ipv4" >>
        /\ files[FirstTimePath(LinkName)]
             = << SecLine("Match"), KvLine("Name", << LinkName >>),
                  SecLine("Network"), KvLine("DHCP", << "ipv4" >>) >>

-----------------------------------------------------------------------------
(* The section-mutation rules as functions of a document *)

RECURSIVE FilterOut(_, _, _)
FilterOut(list, values, i) ==
    IF i > Len(list) THEN << >>
    ELSE IF list[i] \in Range(values) THEN FilterOut(list, values, i + 1)
    ELSE << list[i] >> \o FilterOut(list, values, i + 1)

\* the removal that drops only the first requested value
RemoveFirstOnly(doc, sname, key, values) ==
    SetKeySectionString(doc, sname, key,
        Join(FilterOut(Split(GetKeySectionString(doc, sname, key)),
                       IF Len(values) > 1 THEN << values[1] >> ELSE values, 1),
             << SP >>))

\* the removal of `values` from a list-valued key: read the list, drop every
\* value equal to a requested one, write the rest back (the key stays)
RemoveIfPresent(doc, sname, key, values) ==
    SetKeySectionString(doc, sname, key,
        Join(FilterOut(Split(GetKeySectionString(doc, sname, key)), values, 1), << SP >>))

\* sequences over S of length at most n
RECURSIVE SeqsUpTo(_, _)
SeqsUpTo(S, n) ==
    IF n = 0 THEN { << >> }
    ELSE LET shorter == SeqsUpTo(S, n - 1)
         IN  shorter \cup { Append(q, x) : q \in shorter, x \in S }

\* list elements of the requests: two plain values and one holding a space
Elements == { << "a" >>, << "b" >>, << "a", SP, "b" >> }

ScalarValues == { << >>, << "v" >> }

\* the NetworkSection values of the requests under evaluation
Sections ==
    { [DHCP |-> d, IPv6AcceptRA |-> x, LinkLocalAddressing |-> x, MulticastDNS |-> y,
       Domains |-> dom, DNS |-> dns, NTP |-> dns] :
        d \in ScalarValues, x \in ScalarValues, y \in ScalarValues,
        dom \in SeqsUpTo(Elements, MaxList),
        dns \in { << >>, << << "8.8.8.8" >> >> } }

\* documents on disk: none, the created file, the operator's, and one with
\* list keys and sections this daemon never writes
ListDoc ==
    << [name |-> "Match", keys |-> << [k |-> "Name", v |-> << LinkName >>] >>],
       [name |-> "Network", keys |-> << [k |-> "Domains", v |-> << "a", SP, "b" >>],
                                        [k |-> "DNS", v |-> << "8.8.4.4" >>],
                                        [k |-> "DHCP", v |-> << "no" >>] >>],
       [name |-> "DHCPv4", keys |-> << [k |-> "UseDNS", v |-> << "no" >>] >>] >>

Documents == { << >>, Load(MatchLines(LinkName)), OperatorDoc, ListDoc }

\* a document whose [Resolve] or [Network] list key holds `stored`
StoredList(sname, key, stored) ==
    << [name |-> sname, keys |-> << [k |-> "LLMNR", v |-> << "no" >>],
                                    [k |-> key, v |-> Join(stored, << SP >>)] >>] >>

ListKeys == { << "Network", "Domains" >>, << "Resolve", "DNS" >>, << "Resolve", "Domains" >> }

Tokens == { << "a" >>, << "b" >>, << "c" >> }

ConfigureInputs ==
    { [op |-> "configure", ns |-> ns, doc |-> d,
       sname |-> "", key |-> "", values |-> << >>] :
        ns \in Sections, d \in Documents }

RemoveInputs ==
    { [op |-> "remove", ns |-> EmptySection, doc |-> StoredList(sk[1], sk[2], stored),
       sname |-> sk[1], key |-> sk[2], values |-> vs] :
        sk \in ListKeys,
        stored \in SeqsUpTo(Tokens, MaxList + 1),
        vs \in SeqsUpTo(Tokens \cup { << "a", SP, "b" >> }, MaxList) \ { << >> } }

\* ConfigureNetworkSection applied to a loaded document
ApplyConfigure ==
    /\ pin.op = "configure"
    /\ ~pout.done
    /\ pout' = [done |-> TRUE, doc |-> ConfigureNetworkSection(pin.ns, pin.doc)]
    /\ UNCHANGED pin

\* the removal handlers applied to a loaded document
ApplyRemove ==
    /\ pin.op = "remove"
    /\ ~pout.done
    /\ pout' = [done |-> TRUE, doc |-> RemoveIfPresent(pin.doc, pin.sname, pin.key, pin.values)]
    /\ UNCHANGED pin

ConfigureIdle ==
    /\ files = [p \in Paths |-> Absent]
    /\ linkState = [setup |-> FALSE, networkFile |-> NoPath]
    /\ pc = [r \in Reqs |-> "idle"]
    /\ req = [r \in Reqs |-> NoReq]
    /\ network = [r \in Reqs |-> NoPath]
    /\ m = [r \in Reqs |-> << >>]
    /\ resp = [r \in Reqs |-> NoResp]
    /\ log = [r \in Reqs |-> << >>]
    /\ found = [r \in Reqs |-> NoneFound]

RulesInit ==
    /\ pin \in ConfigureInputs \cup RemoveInputs
    /\ pout = NoOutput
    /\ ConfigureIdle
    /\ ServerIdle
    /\ DescribeIdle

RulesNext ==
    \/ ApplyConfigure /\ UNCHANGED <<configureVars, serverVars, describeVars>>
    \/ ApplyRemove /\ UNCHANGED <<configureVars, serverVars, describeVars>>

SpecRules == RulesInit /\ [][RulesNext]_vars

\* the (section, key) pairs of a document
KeysOf(doc) ==
    UNION { { << doc[i].name, doc[i].keys[j].k >> : j \in 1..Len(doc[i].keys) } :
              i \in 1..Len(doc) }

Touched(ns) == { << "Network", f >> : f \in CarriedFields(ns) }

\* C3: ConfigureNetworkSection changes only the [Network] keys whose request
\* field is non-empty: every other key keeps its value, every other section
\* (with [Match]) is as before, no other key appears, and a request with no
\* non-empty field changes nothing.
C3_Frame ==
    (pin.op = "configure" /\ pout.done)
    => LET before == pin.doc
           after == pout.doc
       IN  /\ \A sk \in KeysOf(before) \ Touched(pin.ns) :
                 /\ sk \in KeysOf(after)
                 /\ GetKeySectionString(after, sk[1], sk[2])
                      = GetKeySectionString(before, sk[1], sk[2])
           /\ KeysOf(after) \subseteq KeysOf(before) \cup Touched(pin.ns)
           /\ Len(after) >= Len(before)
           /\ \A i \in 1..Len(before) :
                 /\ after[i].name = before[i].name
                 /\ before[i].name # "Network" => after[i] = before[i]
           /\ \A i \in (Len(before) + 1)..Len(after) : after[i].name = "Network"
           /\ Touched(pin.ns) = {} => after = before

C3_Witness ==
    /\ pin.op = "configure" /\ pout.done
    /\ pin.doc = ListDoc
    /\ pin.ns.MulticastDNS # << >> /\ pin.ns.DHCP = << >> /\ Len(pin.ns.Domains) = 2
    /\ pout.doc # pin.doc
    /\ GetKeySectionString(pout.doc, "Network", "DHCP") = << "no" >>
    /\ GetKeySectionString(pout.doc, "DHCPv4", "UseDNS") = << "no" >>

\* C5: a removal on a list-valued key writes back exactly the stored values
\* that equal no requested value, in their order: no requested value remains,
\* every other value is still there, and the key itself stays.
C5_RemoveFilters ==
    (pin.op = "remove" /\ pout.done)
    => LET before == Split(GetKeySectionString(pin.doc, pin.sname, pin.key))
           after == Split(GetKeySectionString(pout.doc, pin.sname, pin.key))
           Kept(v) == \A i \in 1..Len(pin.values) : pin.values[i] # v
       IN  /\ \A i \in 1..Len(pin.values) : pin.values[i] \notin Range(after)
           /\ \A v \in Range(before) : Kept(v) => v \in Range(after)
           /\ GetKeySectionString(pout.doc, pin.sname, pin.key)
                = Join(SelectSeq(before, Kept), << SP >>)
           /\ HasKey(pout.doc, pin.sname, pin.key)
           /\ GetKeySectionString(pout.doc, pin.sname, "LLMNR") = << "no" >>

C5_Witness ==
    /\ pin.op = "remove" /\ pout.done
    /\ GetKeySectionString(pin.doc, pin.sname, pin.key) = << "a", SP, "b", SP, "c" >>
    /\ pin.values = << << "a" >>, << "b" >> >>
    /\ GetKeySectionString(pout.doc, pin.sname, pin.key) = << "c" >>

\* a list field of the request holds a value with a space in it
Malformed(ns) == \E f \in ListFields : \E i \in 1..Len(ns[f]) : HasSpace(ns[f][i])

\* C12: a configure request with a list value that contains whitespace is
\* rejected before any mutation: no key of the document is changed, the other
\* fields of the same request included.
C12_RejectsWhitespace ==
    (pin.op = "configure" /\ pout.done /\ Malformed(pin.ns)) => pout.doc = pin.doc

-----------------------------------------------------------------------------
(* Transport and dispatch: Run, the middlewares and the route handlers *)

\* r.Use in runUnixDomainHttpServer
UnixMiddlewaresNone(c) == << >>

UnixMiddlewares(c) == IF c.useAuth THEN << "UnixDomainPeerCredential" >> ELSE << >>

\* r.Use in runWebHttpServer
WebMiddlewaresNone(c) == << >>

WebMiddlewares(c) == IF c.useAuth THEN << "AuthMiddleware" >> ELSE << >>

\* the value of the package variable httpSrv once runWebHttpServer serves: the
\* plain HTTP branch declares a local httpSrv and leaves the variable unset
WebServerHandle(c) == IF c.tls THEN "tls" ELSE "nil"

\* the peers of the unix socket: "nocred" is a peer whose credentials
\* GetsockoptUcred could not read
Peers == { "root", "guest", "nocred" }

\* the authorization policy of the local channel
AuthorizedPeers == { "root" }

\* bearer tokens of network requests ("" is a request without one)
BearerTokens == { "valid", "stale", "" }

\* the durable identity store
IdentityStore == { "valid" }

\* the (route, method) pairs the clients send
RequestLines ==
    { << "/service/systemd", "POST" >>, << "/service/systemd", "GET" >>,
      << "/service/systemd/conf", "GET" >>, << "/service/systemd/conf", "POST" >>,
      << "/service/systemd/conf", "DELETE" >>,
      << "/network/networkd/network/configure", "POST" >> }

\* one write to the http.ResponseWriter: a JSON object with its keys and the
\* value of its success key, or plain text
JsonBody(keys, success) == [kind |-> "json", keys |-> keys, success |-> success]

TextBody == [kind |-> "text", keys |-> {}, success |-> FALSE]

\* http.Error(w, msg, code)
HttpError == << TextBody >>

\* web.JSONResponse and the error envelope of the handlers built on it
EnvelopeOk == << JsonBody({"success", "message"}, TRUE) >>

EnvelopeError == << JsonBody({"success", "errors"}, FALSE) >>

\* what a handler has done when it returns to the server: its writes and
\* whether it acted on the system; no handler ends the process
Result(writes, acted) == [writes |-> writes, acted |-> acted, exits |-> FALSE]

\* routerConfigureUnit
routerConfigureUnit(method, decodeOk, actionOk) ==
    IF method = "POST"
    THEN IF ~decodeOk THEN Result(HttpError, FALSE)
         ELSE IF ~actionOk
              THEN Result(HttpError \o << JsonBody({"error"}, FALSE) >>, TRUE)
              ELSE Result(<< JsonBody({"message"}, FALSE) >>, TRUE)
    ELSE Result(<< JsonBody({"message"}, FALSE) >>, FALSE)

\* routerConfigureSystemdConf with log.Fatal in the place of http.Error
routerConfigureSystemdConfFatal(method, ok) ==
    IF method \in {"GET", "POST"}
    THEN IF ok THEN Result(EnvelopeOk, method = "POST")
         ELSE [writes |-> << >>, acted |-> FALSE, exits |-> TRUE]
    ELSE Result(<< >>, FALSE)

\* routerConfigureSystemdConf: GetSystemConf and UpdateSystemConf answer
\* themselves when they succeed
routerConfigureSystemdConf(method, ok) ==
    IF method \in {"GET", "POST"}
    THEN IF ok THEN Result(EnvelopeOk, method = "POST") ELSE Result(HttpError, FALSE)
    ELSE Result(<< >>, FALSE)

\* the configure route: ConfigureNetwork answers when it succeeds, the route
\* handler answers its error
routerConfigureNetwork(method, ok) ==
    IF ok THEN Result(EnvelopeOk, TRUE) ELSE Result(EnvelopeError, FALSE)

\* the handler of a route on a request
RouteHandler(route, method, decodeOk, ok) ==
    CASE route = "/service/systemd" -> routerConfigureUnit(method, decodeOk, ok)
      [] route = "/service/systemd/conf" -> routerConfigureSystemdConf(method, ok)
      [] OTHER -> routerConfigureNetwork(method, decodeOk /\ ok)

\* runUnixDomainHttpServer up to net.ListenUnix, which is fatal when it
\* fails: os.Remove takes the stale socket away and ListenUnix binds a new
\* one with the permissions of the umask
StartUnix ==
    /\ phase = "init"
    /\ conf.unixSocket
    /\ middlewares' = UnixMiddlewares(conf)
    /\ httpSrv' = "unix"
    /\ \E ok \in BOOLEAN :
         /\ phase' = IF ok THEN "listening" ELSE "exited"
         /\ exit' = IF ok THEN exit ELSE Exit(1, "log.Fatalf")
         /\ sock' = IF ok THEN "bound" ELSE "absent"
    /\ UNCHANGED <<conf, conn, sig>>

\* httpSrv.Serve whether or not the permissions could be changed
ServeUnixUnrestricted ==
    /\ phase = "listening"
    /\ \E ok \in BOOLEAN :
         /\ phase' = "serving"
         /\ sock' = IF ok THEN "restricted" ELSE sock
    /\ UNCHANGED <<conf, middlewares, httpSrv, conn, sig, exit>>

\* ChangeUnixDomainSocketPermission, then httpSrv.Serve; when the change
\* fails the function returns and its deferred unixListener.Close() takes
\* the socket away
ServeUnix ==
    /\ phase = "listening"
    /\ \E ok \in BOOLEAN :
         /\ phase' = IF ok THEN "serving" ELSE "returned"
         /\ sock' = IF ok THEN "restricted" ELSE "absent"
    /\ UNCHANGED <<conf, middlewares, httpSrv, conn, sig, exit>>

\* runWebHttpServer: InitAuthMiddleware (fatal when it fails), r.Use, then
\* ListenAndServeTLS or ListenAndServe (fatal when it returns)
StartWeb ==
    /\ phase = "init"
    /\ ~conf.unixSocket
    /\ \E ok \in BOOLEAN :
         IF ok
         THEN /\ middlewares' = WebMiddlewares(conf)
              /\ httpSrv' = WebServerHandle(conf)
              /\ phase' = "serving"
              /\ exit' = exit
         ELSE /\ phase' = "exited"
              /\ exit' = Exit(1, "log.Fatalf")
              /\ UNCHANGED <<middlewares, httpSrv>>
    /\ UNCHANGED <<conf, conn, sig, sock>>

\* a connection is accepted and its request read; Shutdown closes the
\* listener
Accept(c) ==
    /\ phase = "serving"
    /\ sig # "draining"
    /\ conn[c].state = "none"
    /\ \A d \in Conns : d < c => conn[d].state # "none"
    /\ \E pr \in Peers, tk \in BearerTokens, rl \in RequestLines :
         conn' = [conn EXCEPT ![c] =
                    [@ EXCEPT !.state = "accepted",
                              !.peer = IF conf.unixSocket THEN pr ELSE None,
                              !.token = IF conf.unixSocket THEN None ELSE tk,
                              !.route = rl[1], !.method = rl[2]]]
    /\ UNCHANGED <<conf, phase, middlewares, httpSrv, sig, exit, sock>>

\* the verdict of a middleware on a request
Admits(mw, cn) ==
    CASE mw = "UnixDomainPeerCredential" -> cn.peer \in AuthorizedPeers
      [] mw = "AuthMiddleware" -> cn.token \in IdentityStore
      [] OTHER -> TRUE

\* the registered middlewares run in front of the matched handler
RunMiddlewares(c) ==
    /\ phase = "serving"
    /\ conn[c].state = "accepted"
    /\ LET admitted == \A i \in 1..Len(middlewares) : Admits(middlewares[i], conn[c])
       IN  conn' = [conn EXCEPT ![c] =
                      [@ EXCEPT !.state = IF admitted THEN "routed" ELSE "responded",
                                !.checked = Len(middlewares) > 0,
                                !.writes = IF admitted THEN << >> ELSE EnvelopeError]]
    /\ UNCHANGED <<conf, phase, middlewares, httpSrv, sig, exit, sock>>

\* the route handler runs and writes the response
Handle(c) ==
    /\ phase = "serving"
    /\ conn[c].state = "routed"
    /\ \E decodeOk \in BOOLEAN, ok \in BOOLEAN :
         LET res == RouteHandler(conn[c].route, conn[c].method, decodeOk, ok)
         IN  /\ conn' = [conn EXCEPT ![c] =
                          [@ EXCEPT !.state = "handled", !.writes = res.writes,
                                    !.acted = res.acted]]
             /\ phase' = IF res.exits THEN "exited" ELSE phase
             /\ exit' = IF res.exits THEN Exit(1, "log.Fatal") ELSE exit
    /\ UNCHANGED <<conf, middlewares, httpSrv, sig, sock>>

ServerInit ==
    /\ conf \in { cf \in [unixSocket : BOOLEAN, useAuth : BOOLEAN, tls : BOOLEAN] :
                    cf.unixSocket => ~cf.tls }
    /\ phase = "init"
    /\ middlewares = << >>
    /\ httpSrv = "nil"
    /\ conn = [c \in Conns |-> NoConn]
    /\ sig = "waiting"
    /\ exit = NoExit
    /\ sock \in IF conf.unixSocket THEN {"absent", "stale"} ELSE {"absent"}
    /\ ConfigureIdle
    /\ PureIdle
    /\ DescribeIdle

ServerNext ==
    \/ StartUnix /\ UNCHANGED <<configureVars, pureVars, describeVars>>
    \/ ServeUnix /\ UNCHANGED <<configureVars, pureVars, describeVars>>
    \/ StartWeb /\ UNCHANGED <<configureVars, pureVars, describeVars>>
    \/ \E c \in Conns : Accept(c) /\ UNCHANGED <<configureVars, pureVars, describeVars>>
    \/ \E c \in Conns : RunMiddlewares(c) /\ UNCHANGED <<configureVars, pureVars, describeVars>>
    \/ \E c \in Conns : Handle(c) /\ UNCHANGED <<configureVars, pureVars, describeVars>>

SpecServer == ServerInit /\ [][ServerNext]_vars

\* a request is being served on connection c
Active(c) == conn[c].state \in {"accepted", "routed"}

\* SIGINT or SIGTERM is delivered and the goroutine of Run receives it from s
Signal ==
    /\ sig = "waiting"
    /\ phase \in {"init", "listening", "serving"}
    /\ sig' = "received"
    /\ UNCHANGED <<conf, phase, middlewares, httpSrv, conn, exit, sock>>

\* the goroutine calls httpSrv.Shutdown(context.Background()): on a nil
\* httpSrv the call panics, otherwise it closes the listener (a unix
\* listener takes its socket away) and waits
Shutdown ==
    /\ sig = "received"
    /\ phase # "exited"
    /\ IF httpSrv = "nil"
       THEN /\ phase' = "exited"
            /\ exit' = Exit(2, "panic")
            /\ sig' = sig
            /\ sock' = sock
       ELSE /\ sig' = "draining"
            /\ sock' = IF conf.unixSocket /\ phase = "serving" THEN "absent" ELSE sock
            /\ UNCHANGED <<phase, exit>>
    /\ UNCHANGED <<conf, middlewares, httpSrv, conn>>

\* Shutdown returns once no connection is active, with the error of closing
\* the listener, and the goroutine calls os.Exit
Drained ==
    /\ sig = "draining"
    /\ phase # "exited"
    /\ \A c \in Conns : ~Active(c)
    /\ \E lnerr \in BOOLEAN :
         /\ sig' = IF lnerr THEN "failed" ELSE "drained"
         /\ exit' = IF lnerr THEN Exit(1, "os.Exit") ELSE Exit(0, "os.Exit")
    /\ phase' = "exited"
    /\ UNCHANGED <<conf, middlewares, httpSrv, conn, sock>>

\* Serve, ListenAndServe or ListenAndServeTLS returns http.ErrServerClosed
\* when Shutdown has closed the listener, and log.Fatal exits
ServeReturns ==
    /\ phase = "serving"
    /\ sig = "draining"
    /\ phase' = "exited"
    /\ exit' = Exit(1, "log.Fatal")
    /\ UNCHANGED <<conf, middlewares, httpSrv, conn, sig, sock>>

ShutdownNext ==
    \/ ServerNext
    \/ Signal /\ UNCHANGED <<configureVars, pureVars, describeVars>>
    \/ Shutdown /\ UNCHANGED <<configureVars, pureVars, describeVars>>
    \/ Drained /\ UNCHANGED <<configureVars, pureVars, describeVars>>
    \/ ServeReturns /\ UNCHANGED <<configureVars, pureVars, describeVars>>

SpecShutdown == ServerInit /\ [][ShutdownNext]_vars

\* the handler of connection c ran (and with it the Config Store was reached)
HandlerRan(c) == conn[c].state = "handled"

\* C6: with authentication enabled, a request on the unix socket from a peer
\* that is not authorized is rejected before any handler runs.
C6_LocalAuthGate ==
    \A c \in Conns :
        (conf.unixSocket /\ conf.useAuth /\ conn[c].state \notin {"none", "accepted"}
           /\ conn[c].peer \notin AuthorizedPeers)
        => /\ ~HandlerRan(c)
           /\ conn[c].state = "responded"
           /\ conn[c].writes = EnvelopeError
           /\ ~conn[c].acted

C6_Witness ==
    \E c, d \in Conns :
        /\ conf.unixSocket /\ conf.useAuth
        /\ conn[c].peer = "guest" /\ conn[c].state = "responded"
        /\ conn[d].peer = "root" /\ HandlerRan(d)

\* C7: on the network channel with authentication enabled, no handler runs for
\* a request whose bearer token was not checked against the identity store or
\* is not in it.
C7_TokenBeforeHandler ==
    \A c \in Conns :
        (~conf.unixSocket /\ conf.useAuth /\ HandlerRan(c))
        => conn[c].checked /\ conn[c].token \in IdentityStore

C7_Witness ==
    \E c, d \in Conns :
        /\ ~conf.unixSocket /\ conf.useAuth /\ ~conf.tls
        /\ conn[c].token = "valid" /\ HandlerRan(c)
        /\ conn[d].token = "stale" /\ conn[d].state = "responded"

\* a response that is one ResponseEnvelope
IsEnvelope(writes) ==
    /\ Len(writes) = 1
    /\ writes[1].kind = "json"
    /\ "success" \in writes[1].keys
    /\ writes[1].success => "message" \in writes[1].keys /\ "errors" \notin writes[1].keys
    /\ ~writes[1].success => "errors" \in writes[1].keys /\ "message" \notin writes[1].keys

\* C8: every response of every route handler is one ResponseEnvelope with
\* exactly one of message/errors, never plain text and never two bodies.
C8_UniformEnvelope ==
    \A c \in Conns : conn[c].state \in {"handled", "responded"} => IsEnvelope(conn[c].writes)

\* the request on connection c ended in an error answer
AnsweredError(c) ==
    \/ conn[c].state = "responded"
    \/ conn[c].state = "handled" /\ conn[c].writes # << >> /\ ~IsEnvelope(conn[c].writes)
    \/ conn[c].state = "handled" /\ conn[c].writes = EnvelopeError

\* C13: no error of a request ends the daemon: a step of a middleware or a
\* handler leaves the server serving, whatever it answered, and the process
\* exits only while it starts up (signals apart).
C13_ErrorsKeepServing ==
    [][/\ (phase = "serving" /\ conn' # conn) => (phase' = "serving" /\ exit' = NoExit)
       /\ (phase' = "exited" /\ phase # "exited") => phase \in {"init", "listening"}]_vars

C13_Witness ==
    \E c, d \in Conns :
        /\ c < d
        /\ conn[c].route = "/service/systemd/conf" /\ conn[c].writes = HttpError
        /\ conn[d].state = "handled" /\ conn[d].writes = EnvelopeOk
        /\ AnsweredError(c) /\ ~AnsweredError(d)
        /\ phase = "serving" /\ exit = NoExit

\* C14: after a termination signal the exit code is 0 when the drain
\* completed and 1 when it failed; once the drain has nothing left to wait for,
\* no other exit path ends the process with another code.
C14_ExitCode ==
    (phase = "exited" /\ sig \in {"draining", "drained", "failed"})
    => /\ sig = "failed" => exit.code = 1
       /\ (sig # "failed" /\ \A c \in Conns : ~Active(c)) => exit.code = 0

\* C15: the drain is bounded: when the process has exited after a signal
\* while a request was still being served, it is the signal handler that
\* ended it, with code 1, after the drain gave up.
C15_BoundedDrain ==
    (phase = "exited" /\ sig # "waiting" /\ \E c \in Conns : Active(c))
    => exit = Exit(1, "os.Exit")


\* ---------------------------------------------------------------------
\* SDConnection.DBusDescribeFallback: one goroutine per property, joined
\* by a sync.WaitGroup

\* what hostnamed fails to answer in one run: nothing, two of the
\* properties, everything
Unanswered == { {}, {"Deployment", "GetProductUUID"}, Properties }

\* a goroutine that failed its fetch and wiped the fields of its siblings
FetchedOrReset(desc, t, answered) ==
    IF answered
    THEN [desc EXCEPT ![Fetches[t].field] = BusValue(Fetches[t].prop)]
    ELSE EmptyDescribe

\* the body of one goroutine: the field is assigned only when the
\* fetch returned no error
Fetched(desc, t, answered) ==
    IF answered
    THEN [desc EXCEPT ![Fetches[t].field] = BusValue(Fetches[t].prop)]
    ELSE desc

\* h := Describe{}; wg.Add(17); the go statements
Launch ==
    /\ dpc = "idle"
    /\ dpc' = "Wait"
    /\ h' = EmptyDescribe
    /\ wg' = WaitGroupCount
    /\ tasks' = Tasks
    /\ UNCHANGED <<bus, hung, ret>>

\* a goroutine that calls wg.Done() only after the assignment of its field
FetchDoneOnSuccess(t) ==
    /\ t \in tasks
    /\ Fetches[t].prop \notin hung
    /\ dpc \in {"Wait", "returned"}
    /\ h' = Fetched(h, t, Fetches[t].prop \in bus)
    /\ tasks' = tasks \ {t}
    /\ wg' = IF Fetches[t].prop \in bus THEN wg - 1 ELSE wg
    /\ dpc' = IF wg = 0 THEN "panic" ELSE dpc
    /\ UNCHANGED <<bus, hung, ret>>

\* one goroutine runs to its end, once its fetch has returned: defer
\* wg.Done(); a Done below zero panics
Fetch(t) ==
    /\ t \in tasks
    /\ Fetches[t].prop \notin hung
    /\ dpc \in {"Wait", "returned"}
    /\ h' = Fetched(h, t, Fetches[t].prop \in bus)
    /\ tasks' = tasks \ {t}
    /\ wg' = wg - 1
    /\ dpc' = IF wg = 0 THEN "panic" ELSE dpc
    /\ UNCHANGED <<bus, hung, ret>>

\* wg.Wait(); return &h, nil
Wait ==
    /\ dpc = "Wait"
    /\ wg = 0
    /\ dpc' = "returned"
    /\ ret' = h
    /\ UNCHANGED <<bus, hung, wg, tasks, h>>

DescribeInit ==
    /\ ConfigureIdle
    /\ PureIdle
    /\ ServerIdle
    /\ bus \in { Properties \ u : u \in Unanswered }
    /\ hung = {}
    /\ wg = 0
    /\ tasks = {}
    /\ h = EmptyDescribe
    /\ dpc = "idle"
    /\ ret = EmptyDescribe

DescribeNext ==
    \/ Launch /\ UNCHANGED <<configureVars, pureVars, serverVars>>
    \/ \E t \in Tasks : Fetch(t) /\ UNCHANGED <<configureVars, pureVars, serverVars>>
    \/ Wait /\ UNCHANGED <<configureVars, pureVars, serverVars>>

SpecDescribe == DescribeInit /\ [][DescribeNext]_vars

\* the properties hostnamed never answers in one run: none, or one of them
NeverAnswered == { {}, {"KernelRelease"} }

\* DBusDescribeFallback against a hostnamed that answers every call it
\* answers at all
HangInit ==
    /\ ConfigureIdle
    /\ PureIdle
    /\ ServerIdle
    /\ bus = Properties
    /\ hung \in NeverAnswered
    /\ wg = 0
    /\ tasks = {}
    /\ h = EmptyDescribe
    /\ dpc = "idle"
    /\ ret = EmptyDescribe

SpecHang == HangInit /\ [][DescribeNext]_vars

\* C20: once DBusDescribeFallback has returned, every one of its
\* goroutines has finished and the description is the one they left;
\* and at every moment of the call the field of each finished goroutine
\* holds the fetched value when its fetch succeeded and the empty string
\* when it failed, whatever its siblings did: a failing fetch neither
\* stops nor changes the result of a sibling.
C20_JoinBarrier ==
    /\ dpc = "returned" => (tasks = {} /\ ret = h)
    /\ dpc \in {"Wait", "returned"} =>
         \A t \in Tasks \ tasks :
            h[Fetches[t].field] =
                IF Fetches[t].prop \in bus
                THEN BusValue(Fetches[t].prop)
                ELSE << >>

\* a call has returned in a run where some fetches failed and others
\* succeeded
C20_Witness ==
    /\ dpc = "returned"
    /\ \E t \in Tasks : Fetches[t].prop \notin bus /\ ret[Fetches[t].field] = << >>
    /\ \E t \in Tasks : Fetches[t].prop \in bus /\ ret[Fetches[t].field] # << >>

\* C21: when the Describe call has failed and every property fetch of the
\* fallback fails too, the describe query does not come back as a
\* successful result holding an empty description.
C21_HardFailureIsError ==
    ~(dpc = "returned" /\ bus = {} /\ ret = EmptyDescribe)

\* the description the goroutines leave, whatever their order
Merged(answered) ==
    [f \in DescribeFields |->
        LET t == CHOOSE u \in Tasks : Fetches[u].field = f
        IN  IF Fetches[t].prop \in answered THEN BusValue(Fetches[t].prop) ELSE << >>]

\* C27: as many goroutines are launched as the wait group counts, and each
\* signals completion exactly once whether its fetch succeeded or failed:
\* the counter is the number of goroutines still running, never negative,
\* and is zero when the last one has finished, so the join is released. No
\* two goroutines write the same field, and the description left when all
\* have finished is the same in every interleaving.
C27_CountAndFields ==
    /\ Len(Fetches) = WaitGroupCount
    /\ \A t, u \in Tasks : Fetches[t].field = Fetches[u].field => t = u
    /\ dpc # "panic"
    /\ dpc \in {"Wait", "returned"} =>
         /\ wg = Cardinality(tasks)
         /\ tasks = {} => h = Merged(bus)

\* the join has been released in a run where a fetch failed
C27_Witness ==
    /\ dpc = "returned"
    /\ wg = 0
    /\ bus \notin {{}, Properties}
    /\ h = Merged(bus)

\* a step of the call is still to come: the join is released or a
\* goroutine's fetch will return
CanProceed == wg = 0 \/ \E t \in tasks : Fetches[t].prop \notin hung

\* C22: a describe query does not block for ever on a property fetch that
\* never returns: while the call waits at its join, either the join is
\* released or a fetch is still to return, so that the call completes.
C22_NoIndefiniteBlocking ==
    dpc = "Wait" => CanProceed


\* the server that accepts the connections in each mode of transport
ServingHandle(c) ==
    IF c.unixSocket THEN "unix" ELSE IF c.tls THEN "tls" ELSE "plain"

\* C24: in each mode of transport, when the goroutine of Run has received
\* the signal while the server is serving, the handle it is about to shut
\* down is the server that accepts the connections; and the process never
\* ends in the panic of a Shutdown on an unset handle.
C24_SignalActsOnRunningServer ==
    /\ (sig = "received" /\ phase = "serving") => httpSrv = ServingHandle(conf)
    /\ (sig # "waiting" /\ phase = "exited") => exit.by # "panic"

\* C28: a response of the unit-control route that holds the success
\* message belongs to a request for which a unit action was executed and
\* succeeded: never to one whose body failed to decode, whose action
\* failed, or whose method is not POST.
C28_SuccessOnlyAfterAction ==
    \A c \in Conns :
        (conn[c].route = "/service/systemd" /\ conn[c].state = "handled"
           /\ \E i \in 1..Len(conn[c].writes) :
                conn[c].writes[i] = JsonBody({"message"}, FALSE))
        => /\ conn[c].method = "POST"
           /\ conn[c].acted
           /\ Len(conn[c].writes) = 1


\* request r takes its CreateOrParseNetworkFile step
Resolves(r) == pc[r] = "CreateOrParseNetworkFile" /\ pc'[r] # pc[r]

\* C26: CreateOrParseNetworkFile writes only when the runtime state of the
\* link cannot be read or names no network file. When the state names a
\* file, that path is returned and no file is created or overwritten;
\* otherwise the default path 10-<link>.network is written with the
\* [Match] section and the Name of the link, whatever was at that path, or
\* the write fails and the request ends with no file changed.
C26_WritesOnlyWithoutState ==
    [][\A r \in Reqs :
         Resolves(r) =>
           IF linkState.setup /\ linkState.networkFile # NoPath
           THEN /\ files' = files
                /\ network'[r] = linkState.networkFile
                /\ pc'[r] = "Load"
           ELSE \/ /\ files' = [files EXCEPT ![FirstTimePath(req[r].Link)] =
                                                FirstTimeLines(req[r].Link)]
                   /\ network'[r] = FirstTimePath(req[r].Link)
                   /\ pc'[r] = "Load"
                \/ /\ files' = files
                   /\ pc'[r] = "return"
                   /\ ~resp'[r].success]_vars

\* a request found keys of an earlier one in the default file, and its
\* CreateOrParseNetworkFile has written the file anew
C26_Witness ==
    \E r \in Reqs :
        /\ pc[r] = "Load"
        /\ ~linkState.setup
        /\ Len(found[r][FirstTimePath(LinkName)]) > Len(FirstTimeLines(LinkName))
        /\ files[FirstTimePath(LinkName)] = FirstTimeLines(LinkName)


\* C25: on the unix socket no request is accepted, and no handler runs,
\* before the permissions of the socket path have been changed: the stale
\* socket is removed and the new one bound in the start, the permissions
\* are changed only on a bound socket, and serving starts only with the
\* permissions changed. When the change fails the function has returned:
\* the server never serves on that socket.
C25_PermissionsBeforeServing ==
    /\ [](conf.unixSocket =>
            /\ (phase = "serving" \/ \E c \in Conns : conn[c].state # "none")
                 => sock = "restricted"
            /\ phase = "listening" => sock = "bound"
            /\ phase = "returned" => \A c \in Conns : conn[c].state = "none")
    /\ [][conf.unixSocket =>
            /\ (sock' = "bound" /\ sock # "bound") => phase = "init"
            /\ (sock' = "restricted" /\ sock # "restricted") => sock = "bound"
            /\ phase = "returned" => phase' = "returned"]_vars

\* the server has served a request on the unix socket, with the
\* permissions of the socket changed
C25_Witness ==
    /\ conf.unixSocket
    /\ sock = "restricted"
    /\ \E c \in Conns : conn[c].state = "handled"

\* the change of the permissions has failed and the function has returned
C25_WitnessFailed ==
    /\ conf.unixSocket
    /\ phase = "returned"
    /\ sock = "absent"

-----------------------------------------------------------------------------
(* pmctl: tdnfOptionsQuery *)

\* the fields of tdnf.Options in declaration order, one or two of each kind
OptionFields ==
    << [name |-> << "B", "e", "s", "t" >>, kind |-> "bool"],
       [name |-> << "C", "o", "n", "f", "i", "g" >>, kind |-> "string"],
       [name |-> << "E", "n", "a", "b", "l", "e", "R", "e", "p", "o" >>,
        kind |-> "list"],
       [name |-> << "S", "e", "c", "u", "r", "i", "t", "y" >>, kind |-> "bool"] >>

\* unicode.ToLower on the letters of the field names
ToLowerRune(c) ==
    CASE c = "B" -> "b"
      [] c = "C" -> "c"
      [] c = "E" -> "e"
      [] c = "R" -> "r"
      [] c = "S" -> "s"
      [] OTHER -> c

\* strings.ToLower
ToLower(str) == [i \in 1..Len(str) |-> ToLowerRune(str[i])]

\* the values of a string option and of the elements of a list option
OptionStrings == { << >>, << "x" >>, << "y", "?" >>, << "z", "&", "w" >> }

\* the values of a field of a kind
OptionValues(kind) ==
    CASE kind = "bool" -> BOOLEAN
      [] kind = "string" -> OptionStrings
      [] OTHER -> SeqsUpTo(OptionStrings, MaxList)

\* the values of tdnf.Options, field by field
OptionsValues ==
    { << a, b, c, d >> :
        a \in OptionValues(OptionFields[1].kind), b \in OptionValues(OptionFields[2].kind),
        c \in OptionValues(OptionFields[3].kind), d \in OptionValues(OptionFields[4].kind) }

RECURSIVE ListPairs(_, _, _)
\* for _, s := range list { qlist = append(qlist, name+"="+s) }
ListPairs(name, list, j) ==
    IF j > Len(list) THEN << >>
    ELSE << name \o << "=" >> \o list[j] >> \o ListPairs(name, list, j + 1)

\* the switch on the type of one field
FieldPairs(f, value) ==
    LET name == ToLower(f.name)
    IN  CASE f.kind = "bool" ->
               IF value THEN << name \o << "=", "t", "r", "u", "e" >> >> ELSE << >>
          [] f.kind = "string" ->
               IF value # << >> THEN << name \o << "=" >> \o value >> ELSE << >>
          [] OTHER -> ListPairs(name, value, 1)

RECURSIVE QList(_, _)
\* the loop over the fields: qlist
QList(options, i) ==
    IF i > Len(OptionFields) THEN << >>
    ELSE FieldPairs(OptionFields[i], options[i]) \o QList(options, i + 1)

RECURSIVE QStr(_, _)
\* the loop over qlist: qstr = qstr + sep + s
QStr(qlist, i) ==
    IF i > Len(qlist) THEN << >>
    ELSE (IF i = 1 THEN << "?" >> ELSE << "&" >>) \o qlist[i] \o QStr(qlist, i + 1)

tdnfOptionsQuery(options) == QStr(QList(options, 1), 1)

QueryInit ==
    /\ \E o \in OptionsValues : pin = [op |-> "query", options |-> o]
    /\ pout = NoOutput
    /\ ConfigureIdle
    /\ ServerIdle
    /\ DescribeIdle

\* pmctl builds the query string of a request
BuildQuery ==
    /\ pin.op = "query"
    /\ ~pout.done
    /\ pout' = [done |-> TRUE, doc |-> tdnfOptionsQuery(pin.options)]
    /\ UNCHANGED pin

QueryNext == BuildQuery /\ UNCHANGED <<configureVars, serverVars, describeVars>>

SpecQuery == QueryInit /\ [][QueryNext]_vars

\* the number of pairs field i contributes, as the claim counts them
PairCount(options, i) ==
    CASE OptionFields[i].kind = "bool" -> IF options[i] THEN 1 ELSE 0
      [] OptionFields[i].kind = "string" -> IF options[i] # << >> THEN 1 ELSE 0
      [] OTHER -> Len(options[i])

\* the k-th pair of field i, as the claim writes it
PairOf(options, i, k) ==
    ToLower(OptionFields[i].name) \o << "=" >> \o
    ( CASE OptionFields[i].kind = "bool" -> << "t", "r", "u", "e" >>
        [] OptionFields[i].kind = "string" -> options[i]
        [] OTHER -> options[i][k] )

RECURSIVE ClaimedFrom(_, _, _, _)
\* the pairs from the k-th of field i on, each with its prefix
ClaimedFrom(options, i, k, first) ==
    IF i > Len(OptionFields) THEN << >>
    ELSE IF k > PairCount(options, i) THEN ClaimedFrom(options, i + 1, 1, first)
    ELSE (IF first THEN << "?" >> ELSE << "&" >>) \o PairOf(options, i, k)
         \o ClaimedFrom(options, i, k + 1, FALSE)

\* the positions of a character in a string
Positions(str, c) == { j \in 1..Len(str) : str[j] = c }

\* the query string is the pairs of the fields in declaration order, the
\* first after "?" and each later one after "&"
QueryShape ==
    (pin.op = "query" /\ pout.done)
    => pout.doc = ClaimedFrom(pin.options, 1, 1, TRUE)

QueryShape_Witness ==
    /\ pin.op = "query" /\ pout.done
    /\ pin.options[1] /\ pin.options[2] = << "x" >> /\ Len(pin.options[3]) = MaxList

\* C23: the query string is the pairs of the option fields in declaration
\* order under their lowercased names (name=true for a true boolean,
\* name=value for a non-empty string, one name=element per list element),
\* empty when there is no pair, the first pair after "?" and each later
\* pair after "&", with exactly one "?", which is its first character.
C23_QueryString ==
    (pin.op = "query" /\ pout.done)
    => /\ pout.doc = ClaimedFrom(pin.options, 1, 1, TRUE)
       /\ (\A i \in 1..Len(OptionFields) : PairCount(pin.options, i) = 0) <=> pout.doc = << >>
       /\ pout.doc # << >> => Positions(pout.doc, "?") = {1}

====
